---- MODULE Spec2Model ----
(***************************************************************************)
(* LingoLink real-time layer: the socket handlers of server/socket.ts, the *)
(* Store of server/storage.ts they call, translateMessage of               *)
(* server/translation.ts and the REST routes that change the Store.        *)
(*                                                                         *)
(* Every inbound socket event starts a handler.  A handler runs            *)
(* synchronously up to its next await; one step of an in-flight handler is *)
(* the awaited Store (or Translator) call taking effect followed by the    *)
(* code up to the next await.  Arguments of a call are evaluated when the  *)
(* call is issued, i.e. in the step before.                                *)
(***************************************************************************)
EXTENDS Integers, Sequences, FiniteSets, TLC

\* ---------------------------------------------------------------- bounds
MaxRequests == 2
MaxTasks == 2

\* ------------------------------------------------------------- universe
Conns == {"c1", "c2"}
InitUsers == {1, 2}
AuthIds == {1, 2, 3}
RoomIds == {1, 2}
Contents == {<<" ">>, <<"h", " ">>}
NoUser == 0
HistoryLimit == 50

InitParticipants ==
    { [id |-> 1, roomId |-> 1, userId |-> 1, language |-> "en"],
      [id |-> 2, roomId |-> 2, userId |-> 1, language |-> "en"],
      [id |-> 3, roomId |-> 1, userId |-> 2, language |-> "es"] }

\* the two rooms, both created by user 1
InitRooms ==
    { [id |-> 1, roomCode |-> <<"A", "A", "A", "A", "A", "A">>, createdBy |-> 1],
      [id |-> 2, roomCode |-> <<"B", "B", "B", "B", "B", "B">>, createdBy |-> 1] }

VARIABLES
    users,          \* Store: ids of the rows of table users
    participants,   \* Store: rows of table room_participants
    messages,       \* Store: rows of table messages
    nextMsgId,      \* Store: serial of messages.id
    onlineUsers,    \* Map user id -> Set of socket ids
    userRooms,      \* Map socket id -> Set of room ids
    currentUserId,  \* per connection closure variable
    connected,      \* per connection: socket still open
    liveGroup,      \* socket.io rooms: room id -> connections that joined
    tasks,          \* per connection: its handlers suspended on an await
    fin,            \* the handler invocation that returned in the last step
    del,            \* progress of a running storage.deleteUser
    nRequests,      \* socket events and REST requests received so far
    lastEv,         \* per connection and room: last of join_room / leave_room received
    authedAs,       \* per connection: user ids of its authenticated acknowledgements
    run,            \* join_room calls of one connection and room with nothing in between
    rooms,          \* Store: rows of table rooms
    nextRoomId,     \* Store: serial of rooms.id
    nextPartId,     \* Store: serial of room_participants.id
    reqs,           \* per session: its room requests suspended on an await
    resp,           \* the room request that was answered in the last step
    call,           \* a call of translateMessage: its arguments, the reply, its result
    gen             \* a generated room code: the random numbers, the code, a lookup of it

vars == << users, participants, messages, nextMsgId, onlineUsers, userRooms,
           currentUserId, connected, liveGroup, tasks, fin, del, nRequests,
           lastEv, authedAs, run, rooms, nextRoomId, nextPartId, reqs, resp, call, gen >>

\* ------------------------------------------------------------ JS helpers
MapSet(m, k, v) == [x \in (DOMAIN m) \cup {k} |-> IF x = k THEN v ELSE m[x]]
MapDelete(m, k) == [x \in (DOMAIN m) \ {k} |-> m[x]]
MapHas(m, k) == k \in DOMAIN m
EmptyMap == [x \in {} |-> {}]

IsSpace(ch) == ch = " "

RECURSIVE trimStart(_)
trimStart(s) ==
    IF s # <<>> /\ IsSpace(Head(s)) THEN trimStart(Tail(s)) ELSE s

RECURSIVE trimEnd(_)
trimEnd(s) ==
    IF s # <<>> /\ IsSpace(s[Len(s)]) THEN trimEnd(SubSeq(s, 1, Len(s) - 1)) ELSE s

trim(s) == trimEnd(trimStart(s))

\* --------------------------------------------------------------- Store
displayName(u) == IF u = 1 THEN "Ana" ELSE "Ben"

NoRow == [id |-> 0]

getUserById(id) ==
    IF id \in users
    THEN [id |-> id, displayName |-> displayName(id), profilePhoto |-> "null"]
    ELSE NoRow

isUserInRoom(roomId, userId) ==
    \E p \in participants : p.roomId = roomId /\ p.userId = userId

getRoomById(id) ==
    IF \E r \in rooms : r.id = id THEN CHOOSE r \in rooms : r.id = id ELSE NoRow

getRoomParticipants(roomId) ==
    { p \in participants : p.roomId = roomId /\ p.userId \in users }

RECURSIVE SortById(_)
SortById(rows) ==
    IF rows = {} THEN <<>>
    ELSE LET m == CHOOSE x \in rows : \A y \in rows : x.id <= y.id
         IN <<m>> \o SortById(rows \ {m})

LastN(s, n) == IF Len(s) <= n THEN s ELSE SubSeq(s, Len(s) - n + 1, Len(s))

getRoomMessages(roomId, limit) ==
    LET msgs == LastN(SortById({ m \in messages : m.roomId = roomId }), limit)
    IN [i \in 1..Len(msgs) |->
          [message |-> msgs[i],
           sender |-> IF msgs[i].senderId \in users
                      THEN [id |-> msgs[i].senderId,
                            displayName |-> displayName(msgs[i].senderId)]
                      ELSE [id |-> msgs[i].senderId, displayName |-> "Unknown"]]]

\* foreign keys of table messages (shared/schema.ts): the insert is refused
\* when the room or the sender has no row
createMessageAccepted(roomId, senderId) ==
    getRoomById(roomId) # NoRow /\ senderId \in users

\* the row stored without its translations
createMessage_noTranslations(id, roomId, senderId, content, messageType, originalLanguage, translatedContent) ==
    [id |-> id, roomId |-> roomId, senderId |-> senderId, content |-> content,
     messageType |-> messageType, originalLanguage |-> originalLanguage,
     translatedContent |-> EmptyMap]

createMessage(id, roomId, senderId, content, messageType, originalLanguage, translatedContent) ==
    [id |-> id, roomId |-> roomId, senderId |-> senderId, content |-> content,
     messageType |-> messageType, originalLanguage |-> originalLanguage,
     translatedContent |-> translatedContent]

\* users.id is referenced by rooms.created_by and messages.sender_id without
\* ON DELETE CASCADE: the row can not be deleted while referenced
deleteUserRowAccepted(id) ==
    /\ \A r \in rooms : r.createdBy # id
    /\ \A m \in messages : m.senderId # id

leaveRoom(roomId, userId) ==
    { p \in participants : ~(p.roomId = roomId /\ p.userId = userId) }

\* ---------------------------------------------------------- Translator
TranslatedText(lang, text) == <<lang>> \o text

\* what the remote model may answer to one request
Replies(text, targetLanguages) ==
    { [kind |-> "throw"],
      [kind |-> "text"],
      [kind |-> "json", detectedLanguage |-> "en",
       translations |-> [l \in targetLanguages |-> TranslatedText(l, text)],
       confidence |-> 90] }

\* the catch block returning an empty map instead of echoing the text
translateMessage_emptyFallback(text, targetLanguages, reply) ==
    IF targetLanguages = {}
    THEN [detectedLanguage |-> "en", translations |-> EmptyMap, confidence |-> 100]
    ELSE IF reply.kind = "json"
         THEN [detectedLanguage |->
                  IF reply.detectedLanguage = "" THEN "en" ELSE reply.detectedLanguage,
               translations |-> reply.translations,
               confidence |-> IF reply.confidence = 0 THEN 80 ELSE reply.confidence]
         ELSE [detectedLanguage |-> "unknown", translations |-> EmptyMap,
               confidence |-> 0]

\* the confidence of the reply returned as it is
translateMessage_asReplied(text, targetLanguages, reply) ==
    IF targetLanguages = {}
    THEN [detectedLanguage |-> "en", translations |-> EmptyMap, confidence |-> 100]
    ELSE IF reply.kind = "json"
         THEN [detectedLanguage |->
                  IF reply.detectedLanguage = "" THEN "en" ELSE reply.detectedLanguage,
               translations |-> reply.translations,
               confidence |-> reply.confidence]
         ELSE [detectedLanguage |-> "unknown",
               translations |-> [l \in targetLanguages |-> text],
               confidence |-> 0]

translateMessage(text, targetLanguages, reply) ==
    IF targetLanguages = {}
    THEN [detectedLanguage |-> "en", translations |-> EmptyMap, confidence |-> 100]
    ELSE IF reply.kind = "json"
         THEN [detectedLanguage |->
                  IF reply.detectedLanguage = "" THEN "en" ELSE reply.detectedLanguage,
               translations |-> reply.translations,
               confidence |-> IF reply.confidence = 0 THEN 80 ELSE reply.confidence]
         ELSE [detectedLanguage |-> "unknown",
               translations |-> [l \in targetLanguages |-> text],
               confidence |-> 0]

\* -------------------------------------------------------------- presence
\* the filter on the room's participants forgotten
getOnlineUsersInRoom_everyone(roomId) == DOMAIN onlineUsers

getOnlineUsersInRoom(roomId) ==
    { p.userId : p \in { q \in getRoomParticipants(roomId) : MapHas(onlineUsers, q.userId) } }

\* ----------------------------------------------------- handler records
NoResult == [detectedLanguage |-> "", translations |-> EmptyMap, confidence |-> 0]

NoTask ==
    [kind |-> "none", conn |-> "", roomId |-> 0, pc |-> "", uid |-> NoUser,
     content |-> <<>>, senderLang |-> "", targetLanguages |-> {},
     translationResult |-> NoResult, message |-> NoRow, visited |-> {},
     joined |-> {}, reply |-> "", sent |-> <<>>, calls |-> 0, outcome |-> "",
     member |-> NoUser, participants |-> {}, sender |-> NoUser, recv |-> 0]

NewTask(kind, c, roomId, pc, uid) ==
    [NoTask EXCEPT !.kind = kind, !.conn = c, !.roomId = roomId, !.pc = pc,
                   !.uid = uid, !.outcome = "pending"]

Event(type, to, roomId, userId, body) ==
    [type |-> type, to |-> to, roomId |-> roomId, userId |-> userId, body |-> body]

Emit(t, ev) == [t EXCEPT !.sent = Append(@, ev)]

Outcome(t, o) == [t EXCEPT !.outcome = o, !.pc = "returned"]

\* socket.emit: to the connection itself; nothing is delivered once it is closed
ToSocket(conn, c) == IF conn[c] THEN {c} ELSE {}
\* the emitting connection not excluded
ToOthers_all(grp, roomId, c) == grp[roomId]

\* socket.to(roomKey): the room's group without the emitting connection
ToOthers(grp, roomId, c) == grp[roomId] \ {c}
\* io.to(roomKey): the room's whole group
ToRoom(grp, roomId) == grp[roomId]

\* the error sent to every connection
ErrorEvent_toAll(c, message) == Event("error", Conns, 0, NoUser, message)

ErrorEvent(c, message) == Event("error", ToSocket(connected, c), 0, NoUser, message)

EventsOf(t, type) == { k \in 1..Len(t.sent) : t.sent[k].type = type }

\* the handlers a connection has suspended on an await
SlotIds == Conns \X (1..MaxTasks)

HasFree(c) == \E i \in 1..MaxTasks : tasks[<<c, i>>].kind = "none"
FreeSlot(c) ==
    << c, CHOOSE i \in 1..MaxTasks :
              /\ tasks[<<c, i>>].kind = "none"
              /\ \A j \in 1..(i - 1) : tasks[<<c, j>>].kind # "none" >>

Start(t) == tasks' = [tasks EXCEPT ![FreeSlot(t.conn)] = t] /\ fin' = NoTask
Continue(i, t) == tasks' = [tasks EXCEPT ![i] = t] /\ fin' = NoTask
Finish(i, t) == tasks' = [tasks EXCEPT ![i] = NoTask] /\ fin' = t
Return(t) == tasks' = tasks /\ fin' = t

InFlight(c) == { i \in SlotIds : tasks[i].kind # "none" /\ tasks[i].conn = c }

\* position of a new event among the events of the connection whose handlers
\* have not returned: the event loop starts handlers in the order of arrival
arrival(c) ==
    LET pending == { tasks[i].recv : i \in InFlight(c) }
    IN IF pending = {} THEN 1
       ELSE 1 + CHOOSE n \in pending : \A m \in pending : m <= n

NoDel == [userId |-> NoUser, pc |-> "none"]
NoRun == [conn |-> "", roomId |-> 0, slots |-> {}, snaps |-> <<>>]

NoReq ==
    [kind |-> "none", userId |-> NoUser, pc |-> "", roomCode |-> <<>>, attempts |-> 0,
     probes |-> 0, room |-> NoRow, language |-> "", result |-> NoRow, outcome |-> "",
     roomId |-> 0, inRoom |-> FALSE, status |-> 0, body |-> [error |-> ""]]

NoGen == [pc |-> "none", randoms |-> <<>>, code |-> <<>>, query |-> <<>>, room |-> NoRow]

NoCall ==
    [pc |-> "none", text |-> <<>>, targetLanguages |-> {}, reply |-> [kind |-> "none"],
     result |-> NoResult]

\* the room requests a session has suspended on an await
ReqSlots == InitUsers \X (1..MaxTasks)

store == << users, participants, messages, nextMsgId >>
presence == << onlineUsers, userRooms >>
\* what only the REST routes of rooms write
catalog == << rooms, nextRoomId, nextPartId, reqs, resp >>

\* ------------------------------------------------------------------ Init
\* A quiescent state of the server: every connection is open and is either
\* fresh or has authenticated as an existing user and joined room 1, of which
\* that user is a participant: c1 as user 1, c2 as user 2.
Fresh == [user |-> NoUser, rooms |-> {}]

InitConfigs ==
    { cfg \in [Conns -> {Fresh, [user |-> 1, rooms |-> {1}], [user |-> 2, rooms |-> {1}]}] :
        /\ cfg["c1"].user # 2 /\ cfg["c2"].user # 1
        /\ \A c \in Conns :
              \A r \in cfg[c].rooms :
                 \E p \in InitParticipants : p.roomId = r /\ p.userId = cfg[c].user }

Init ==
    \E cfg \in InitConfigs :
        /\ users = InitUsers
        /\ participants = InitParticipants
        /\ messages = {}
        /\ nextMsgId = 1
        /\ onlineUsers =
              [u \in { cfg[c].user : c \in Conns } \ {NoUser} |->
                  { c \in Conns : cfg[c].user = u }]
        /\ userRooms =
              [c \in { d \in Conns : cfg[d].rooms # {} } |-> cfg[c].rooms]
        /\ currentUserId = [c \in Conns |-> cfg[c].user]
        /\ connected = [c \in Conns |-> TRUE]
        /\ liveGroup = [r \in RoomIds |-> { c \in Conns : r \in cfg[c].rooms }]
        /\ tasks = [i \in SlotIds |-> NoTask]
        /\ fin = NoTask
        /\ del = NoDel
        /\ nRequests = 0
        /\ lastEv = [c \in Conns |-> [r \in RoomIds |->
                        IF r \in cfg[c].rooms THEN "join_room" ELSE "none"]]
        /\ authedAs = [c \in Conns |-> {cfg[c].user} \ {NoUser}]
        /\ run = NoRun
        /\ rooms = InitRooms
        /\ nextRoomId = 3
        /\ nextPartId = 4
        /\ reqs = [i \in ReqSlots |-> NoReq]
        /\ resp = NoReq
        /\ call = NoCall
        /\ gen = NoGen

\* ---------------------------------------------------------- authenticate
authenticate(c, userId) ==
    /\ connected[c] /\ nRequests < MaxRequests /\ HasFree(c)
    /\ currentUserId' = [currentUserId EXCEPT ![c] = userId]
    /\ Start(NewTask("authenticate", c, 0, "getUserById", userId))
    /\ nRequests' = nRequests + 1
    /\ lastEv' = [lastEv EXCEPT ![c] = [r \in RoomIds |-> "none"]]
    /\ run' = NoRun
    /\ UNCHANGED << call, gen, catalog, store, presence, connected, liveGroup, del, authedAs >>

markOnline(userId, c) ==
    MapSet(onlineUsers, userId,
           (IF MapHas(onlineUsers, userId) THEN onlineUsers[userId] ELSE {}) \cup {c})

AuthenticateGetUserById(i) ==
    LET t == tasks[i]
        c == t.conn
        user == getUserById(t.uid)
    IN /\ t.kind = "authenticate"
       /\ IF user = NoRow
          THEN /\ Finish(i, Outcome(Emit(t, ErrorEvent(c, "User not found")), "rejected"))
               /\ UNCHANGED << onlineUsers, authedAs >>
          ELSE /\ onlineUsers' = markOnline(currentUserId[c], c)
               /\ authedAs' = [authedAs EXCEPT ![c] = @ \cup {currentUserId[c]}]
               /\ Finish(i, Outcome(Emit(t,
                      Event("authenticated", ToSocket(connected, c), 0,
                            currentUserId[c], "")), "ok"))
       /\ run' = NoRun
       /\ UNCHANGED << call, gen, catalog, store, userRooms, currentUserId, connected, liveGroup,
                       del, nRequests, lastEv >>

\* ------------------------------------------------------------- join_room
\* a join that toggles the membership of the group
socketJoin_toggle(c, roomId) ==
    IF c \in liveGroup[roomId]
    THEN [liveGroup EXCEPT ![roomId] = @ \ {c}]
    ELSE [liveGroup EXCEPT ![roomId] = @ \cup {c}]

socketJoin(c, roomId) ==
    IF connected[c] THEN [liveGroup EXCEPT ![roomId] = @ \cup {c}] ELSE liveGroup

socketLeave(c, roomId) == [liveGroup EXCEPT ![roomId] = @ \ {c}]

recordRoomJoin(c, roomId) ==
    MapSet(userRooms, c,
           (IF MapHas(userRooms, c) THEN userRooms[c] ELSE {}) \cup {roomId})

recordRoomLeave(c, roomId) ==
    IF MapHas(userRooms, c) THEN [userRooms EXCEPT ![c] = @ \ {roomId}] ELSE userRooms

\* the connection has authenticated and no authenticate is being handled
Authenticated(c) ==
    /\ currentUserId[c] \in authedAs[c]
    /\ \A i \in InFlight(c) : tasks[i].kind # "authenticate"

Received(c, roomId, ev) ==
    [lastEv EXCEPT ![c][roomId] = IF Authenticated(c) THEN ev ELSE "none"]

\* the run of join_room calls of (c, roomId) that nothing else interrupts
JoinRun(c, roomId) ==
    IF run.conn = c /\ run.roomId = roomId
    THEN run
    ELSE [conn |-> c, roomId |-> roomId, slots |-> {}, snaps |-> <<>>]

KeepRun(i) == IF i \in run.slots THEN run ELSE NoRun

join_room(c, roomId) ==
    /\ connected[c] /\ nRequests < MaxRequests /\ HasFree(c)
    /\ IF currentUserId[c] = NoUser
       THEN /\ Return(Outcome(Emit(NewTask("join_room", c, roomId, "", NoUser),
                                   ErrorEvent(c, "Not authenticated")), "rejected"))
            /\ run' = NoRun
       ELSE /\ Start(NewTask("join_room", c, roomId, "isUserInRoom", currentUserId[c]))
            /\ run' = [JoinRun(c, roomId) EXCEPT !.slots = @ \cup {FreeSlot(c)}]
    /\ lastEv' = Received(c, roomId, "join_room")
    /\ nRequests' = nRequests + 1
    /\ UNCHANGED << call, gen, catalog, store, presence, currentUserId, connected, liveGroup, del,
                    authedAs >>

JoinIsUserInRoom(i) ==
    LET t == tasks[i]
        c == t.conn
    IN /\ t.kind = "join_room" /\ t.pc = "isUserInRoom"
       /\ IF ~isUserInRoom(t.roomId, t.uid)
          THEN /\ Finish(i, Outcome(Emit(t, ErrorEvent(c, "Not a member of this room")),
                                    "rejected"))
               /\ run' = NoRun
               /\ UNCHANGED << liveGroup, userRooms >>
          ELSE /\ liveGroup' = socketJoin(c, t.roomId)
               /\ userRooms' = recordRoomJoin(c, t.roomId)
               /\ Continue(i, [t EXCEPT !.pc = "getUserById", !.uid = currentUserId[c]])
               /\ run' = KeepRun(i)
       /\ UNCHANGED << call, gen, catalog, store, onlineUsers, currentUserId, connected, del, nRequests, lastEv, authedAs >>

JoinGetUserById(i) ==
    LET t == tasks[i]
        c == t.conn
        user == getUserById(t.uid)
    IN /\ t.kind = "join_room" /\ t.pc = "getUserById"
       /\ Continue(i, [Emit(t, Event("user_joined", ToOthers(liveGroup, t.roomId, c),
                                     t.roomId, currentUserId[c],
                                     IF user = NoRow THEN "undefined" ELSE user.displayName))
                       EXCEPT !.pc = "getOnlineUsersInRoom"])
       /\ run' = KeepRun(i)
       /\ UNCHANGED << call, gen, catalog, store, presence, currentUserId, connected, liveGroup, del,
                       nRequests, lastEv, authedAs >>

JoinSnapshot(t, onlineInRoom) ==
    [group |-> liveGroup[t.roomId], index |-> userRooms, users |-> onlineInRoom,
     emitted |-> Cardinality(EventsOf(t, "online_users"))]

JoinGetOnlineUsers(i) ==
    LET t == tasks[i]
        onlineInRoom == getOnlineUsersInRoom(t.roomId)
        t2 == Emit(t, Event("online_users", ToRoom(liveGroup, t.roomId), t.roomId,
                            NoUser, onlineInRoom))
    IN /\ t.kind = "join_room" /\ t.pc = "getOnlineUsersInRoom"
       /\ Finish(i, Outcome(t2, "ok"))
       /\ run' = IF i \in run.slots
                 THEN [run EXCEPT !.snaps = Append(@, JoinSnapshot(t2, onlineInRoom))]
                 ELSE NoRun
       /\ UNCHANGED << call, gen, catalog, store, presence, currentUserId, connected, liveGroup, del,
                       nRequests, lastEv, authedAs >>

\* ------------------------------------------------------------ leave_room
leave_room(c, roomId) ==
    LET t == NewTask("leave_room", c, roomId, "", currentUserId[c])
    IN /\ connected[c] /\ nRequests < MaxRequests
       /\ liveGroup' = socketLeave(c, roomId)
       /\ userRooms' = recordRoomLeave(c, roomId)
       /\ IF currentUserId[c] # NoUser
          THEN Return(Outcome(Emit(t, Event("user_left", ToOthers(liveGroup', roomId, c),
                                            roomId, currentUserId[c], "")), "ok"))
          ELSE Return(Outcome(t, "ok"))
       /\ lastEv' = Received(c, roomId, "leave_room")
       /\ nRequests' = nRequests + 1
       /\ run' = NoRun
       /\ UNCHANGED << call, gen, catalog, store, onlineUsers, currentUserId, connected, del, authedAs >>

\* ---------------------------------------------------------------- typing
typing(c, roomId, isTyping) ==
    LET t == NewTask("typing", c, roomId, "", currentUserId[c])
    IN /\ connected[c] /\ nRequests < MaxRequests
       /\ IF currentUserId[c] = NoUser
          THEN Return(Outcome(t, "silent"))
          ELSE Return(Outcome(Emit(t, Event("user_typing", ToOthers(liveGroup, roomId, c),
                                            roomId, currentUserId[c], isTyping)), "ok"))
       /\ nRequests' = nRequests + 1
       /\ run' = NoRun
       /\ UNCHANGED << call, gen, catalog, store, presence, currentUserId, connected, liveGroup, del, lastEv, authedAs >>

\* ---------------------------------------------------------- send_message
firstRow(rows) == CHOOSE x \in rows : \A y \in rows : x.id <= y.id

senderLangOf(ps, userId) ==
    LET mine == { p \in ps : p.userId = userId }
    IN IF mine = {} \/ firstRow(mine).language = "" THEN "en" ELSE firstRow(mine).language

\* the filter on senderLang forgotten
targetLanguagesOf_all(ps, senderLang) == { p.language : p \in ps }

targetLanguagesOf(ps, senderLang) ==
    { p.language : p \in ps } \ {senderLang}

\* the test on the trimmed content forgotten
needsTranslation_noTrim(targetLanguages, content) ==
    Cardinality(targetLanguages) > 0

needsTranslation(targetLanguages, content) ==
    Cardinality(targetLanguages) > 0 /\ Len(trim(content)) > 0

defaultResult(senderLang) ==
    [detectedLanguage |-> senderLang, translations |-> EmptyMap, confidence |-> 100]

send_message(c, roomId, content) ==
    /\ connected[c] /\ nRequests < MaxRequests /\ HasFree(c)
    /\ IF currentUserId[c] = NoUser
       THEN Return(Outcome(Emit(NewTask("send_message", c, roomId, "", NoUser),
                                ErrorEvent(c, "Not authenticated")), "rejected"))
       ELSE Start([NewTask("send_message", c, roomId, "isUserInRoom", currentUserId[c])
                   EXCEPT !.content = content, !.recv = arrival(c)])
    /\ nRequests' = nRequests + 1
    /\ run' = NoRun
    /\ UNCHANGED << call, gen, catalog, store, presence, currentUserId, connected, liveGroup, del, lastEv, authedAs >>

SendIsUserInRoom(i) ==
    LET t == tasks[i]
    IN /\ t.kind = "send_message" /\ t.pc = "isUserInRoom"
       /\ IF ~isUserInRoom(t.roomId, t.uid)
          THEN Finish(i, Outcome(Emit(t, ErrorEvent(t.conn, "Not a member of this room")),
                                 "rejected"))
          ELSE Continue(i, [t EXCEPT !.pc = "getRoomById", !.member = t.uid])
       /\ run' = NoRun
       /\ UNCHANGED << call, gen, catalog, store, presence, currentUserId, connected, liveGroup, del,
                       nRequests, lastEv, authedAs >>

SendGetRoomById(i) ==
    LET t == tasks[i]
    IN /\ t.kind = "send_message" /\ t.pc = "getRoomById"
       /\ IF getRoomById(t.roomId) = NoRow
          THEN Finish(i, Outcome(t, "silent"))
          ELSE Continue(i, [t EXCEPT !.pc = "getRoomParticipants"])
       /\ run' = NoRun
       /\ UNCHANGED << call, gen, catalog, store, presence, currentUserId, connected, liveGroup, del,
                       nRequests, lastEv, authedAs >>

SendGetRoomParticipants(i) ==
    LET t == tasks[i]
        ps == getRoomParticipants(t.roomId)
        senderLang == senderLangOf(ps, currentUserId[t.conn])
        targetLanguages == targetLanguagesOf(ps, senderLang)
        t2 == [t EXCEPT !.participants = ps,
                        !.sender = currentUserId[t.conn],
                        !.senderLang = senderLang,
                        !.targetLanguages = targetLanguages,
                        !.translationResult = defaultResult(senderLang)]
    IN /\ t.kind = "send_message" /\ t.pc = "getRoomParticipants"
       /\ IF needsTranslation(targetLanguages, t.content)
          THEN Continue(i, [t2 EXCEPT !.pc = "translateMessage", !.calls = @ + 1])
          ELSE Continue(i, [t2 EXCEPT !.pc = "createMessage",
                                      !.uid = currentUserId[t.conn]])
       /\ run' = NoRun
       /\ UNCHANGED << call, gen, catalog, store, presence, currentUserId, connected, liveGroup, del,
                       nRequests, lastEv, authedAs >>

\* a throwing call of the remote model rethrown to the handler
SendTranslateMessage_rethrow(i) ==
    LET t == tasks[i]
    IN /\ t.kind = "send_message" /\ t.pc = "translateMessage"
       /\ \E reply \in Replies(t.content, t.targetLanguages) :
            IF reply.kind = "throw"
            THEN Finish(i, Outcome([t EXCEPT !.reply = reply.kind], "threw"))
            ELSE Continue(i, [t EXCEPT
                    !.translationResult = translateMessage(t.content, t.targetLanguages, reply),
                    !.reply = reply.kind,
                    !.pc = "createMessage",
                    !.uid = currentUserId[t.conn]])
       /\ run' = NoRun
       /\ UNCHANGED << call, gen, catalog, store, presence, currentUserId, connected, liveGroup, del,
                       nRequests, lastEv, authedAs >>

SendTranslateMessage(i) ==
    LET t == tasks[i]
    IN /\ t.kind = "send_message" /\ t.pc = "translateMessage"
       /\ \E reply \in Replies(t.content, t.targetLanguages) :
            Continue(i, [t EXCEPT
                !.translationResult = translateMessage(t.content, t.targetLanguages, reply),
                !.reply = reply.kind,
                !.pc = "createMessage",
                !.uid = currentUserId[t.conn]])
       /\ run' = NoRun
       /\ UNCHANGED << call, gen, catalog, store, presence, currentUserId, connected, liveGroup, del,
                       nRequests, lastEv, authedAs >>

\* the insert replacing the table's rows
insertMessage_replace(message) == {message}

\* db.insert(messages).values(...)
insertMessage(message) == messages \cup {message}

\* the rejection caught and ignored: the handler goes on to the broadcast
storeError_swallowed(i, t) == Continue(i, [t EXCEPT !.pc = "getUserById"])

\* a rejected Store call rejects the handler's promise: nothing after it runs
storeError(i, t) == Finish(i, Outcome(t, "threw"))

SendCreateMessage(i) ==
    LET t == tasks[i]
        message == createMessage(nextMsgId, t.roomId, t.uid, t.content, "text",
                                 t.translationResult.detectedLanguage,
                                 t.translationResult.translations)
    IN /\ t.kind = "send_message" /\ t.pc = "createMessage"
       /\ IF createMessageAccepted(t.roomId, t.uid)
          THEN /\ messages' = insertMessage(message)
               /\ nextMsgId' = nextMsgId + 1
               /\ Continue(i, [t EXCEPT !.message = message, !.pc = "getUserById",
                                        !.uid = currentUserId[t.conn]])
          ELSE /\ storeError(i, t)
               /\ UNCHANGED << messages, nextMsgId >>
       /\ run' = NoRun
       /\ UNCHANGED << call, gen, catalog, users, participants, presence, currentUserId, connected,
                       liveGroup, del, nRequests, lastEv, authedAs >>

senderSummary(sender, userId) ==
    IF sender # NoRow
    THEN [id |-> sender.id, displayName |-> sender.displayName]
    ELSE [id |-> userId, displayName |-> "Unknown"]

SendGetUserById(i) ==
    LET t == tasks[i]
        sender == getUserById(t.uid)
    IN /\ t.kind = "send_message" /\ t.pc = "getUserById"
       /\ Finish(i, Outcome(Emit(t,
              Event("new_message", ToRoom(liveGroup, t.roomId), t.roomId, NoUser,
                    [message |-> t.message,
                     sender |-> senderSummary(sender, currentUserId[t.conn]),
                     translationResult |-> t.translationResult])), "ok"))
       /\ run' = NoRun
       /\ UNCHANGED << call, gen, catalog, store, presence, currentUserId, connected, liveGroup, del,
                       nRequests, lastEv, authedAs >>

\* ------------------------------------------------------------ disconnect
markOffline(userId, c) ==
    IF MapHas(onlineUsers, userId)
    THEN IF onlineUsers[userId] \ {c} = {}
         THEN MapDelete(onlineUsers, userId)
         ELSE [onlineUsers EXCEPT ![userId] = @ \ {c}]
    ELSE onlineUsers

\* socket.io leaves every room of the socket before it fires "disconnect"
leaveAll(c) == [r \in RoomIds |-> liveGroup[r] \ {c}]

UserLeft(grp, c, roomId) ==
    Event("user_left", ToOthers(grp, roomId, c), roomId, currentUserId[c], "")

\* rooms of the connection's Set that the for-of loop has not visited yet
Unvisited(c, visited) ==
    IF MapHas(userRooms, c) THEN userRooms[c] \ visited ELSE {}

\* the handler wiping the presence map instead of testing currentUserId
disconnect_wipe(c) ==
    /\ connected[c] /\ nRequests < MaxRequests /\ HasFree(c)
    /\ connected' = [connected EXCEPT ![c] = FALSE]
    /\ liveGroup' = leaveAll(c)
    /\ onlineUsers' = EmptyMap
    /\ userRooms' = MapDelete(userRooms, c)
    /\ Return(Outcome(NewTask("disconnect", c, 0, "", currentUserId[c]), "ok"))
    /\ nRequests' = nRequests + 1
    /\ run' = NoRun
    /\ UNCHANGED << call, gen, catalog, store, currentUserId, del, lastEv, authedAs >>

disconnect(c) ==
    LET t == [NewTask("disconnect", c, 0, "", currentUserId[c])
              EXCEPT !.joined = Unvisited(c, {})]
    IN /\ connected[c] /\ nRequests < MaxRequests /\ HasFree(c)
       /\ connected' = [connected EXCEPT ![c] = FALSE]
       /\ liveGroup' = leaveAll(c)
       /\ IF currentUserId[c] = NoUser
          THEN /\ Return(Outcome(t, "ok"))
               /\ UNCHANGED presence
          ELSE /\ onlineUsers' = markOffline(currentUserId[c], c)
               /\ IF Unvisited(c, {}) = {}
                  THEN /\ userRooms' = MapDelete(userRooms, c)
                       /\ Return(Outcome(t, "ok"))
                  ELSE /\ UNCHANGED userRooms
                       /\ \E roomId \in Unvisited(c, {}) :
                            Start([Emit(t, UserLeft(liveGroup', c, roomId))
                                   EXCEPT !.roomId = roomId, !.visited = {roomId},
                                          !.pc = "getOnlineUsersInRoom"])
       /\ nRequests' = nRequests + 1
       /\ run' = NoRun
       /\ UNCHANGED << call, gen, catalog, store, currentUserId, del, lastEv, authedAs >>

DisconnectGetOnlineUsers(i) ==
    LET t == tasks[i]
        c == t.conn
        t2 == Emit(t, Event("online_users", ToRoom(liveGroup, t.roomId), t.roomId,
                            NoUser, getOnlineUsersInRoom(t.roomId)))
    IN /\ t.kind = "disconnect" /\ t.pc = "getOnlineUsersInRoom"
       /\ IF Unvisited(c, t.visited) = {}
          THEN /\ userRooms' = MapDelete(userRooms, c)
               /\ Finish(i, Outcome(t2, "ok"))
          ELSE /\ UNCHANGED userRooms
               /\ \E roomId \in Unvisited(c, t.visited) :
                    Continue(i, [Emit(t2, UserLeft(liveGroup, c, roomId))
                                 EXCEPT !.roomId = roomId,
                                        !.visited = @ \cup {roomId}])
       /\ run' = NoRun
       /\ UNCHANGED << call, gen, catalog, store, onlineUsers, currentUserId, connected, liveGroup, del,
                       nRequests, lastEv, authedAs >>

\* ------------------------------------------------------------ REST routes
\* POST /api/rooms/:id/leave
RestLeaveRoom(userId, roomId) ==
    /\ userId \in users /\ nRequests < MaxRequests
    /\ participants' = leaveRoom(roomId, userId)
    /\ nRequests' = nRequests + 1
    /\ fin' = NoTask
    /\ run' = NoRun
    /\ resp' = NoReq
    /\ UNCHANGED << call, gen, rooms, nextRoomId, nextPartId, reqs, users, messages, nextMsgId,
                    presence, currentUserId, connected, liveGroup, tasks, del, lastEv,
                    authedAs >>

\* DELETE /api/auth/account: storage.deleteUser, first statement
RestDeleteAccount(userId) ==
    /\ userId \in users /\ nRequests < MaxRequests /\ del = NoDel
    /\ participants' = { p \in participants : p.userId # userId }
    /\ del' = [userId |-> userId, pc |-> "messages"]
    /\ nRequests' = nRequests + 1
    /\ fin' = NoTask
    /\ run' = NoRun
    /\ UNCHANGED << call, gen, catalog, users, messages, nextMsgId, presence, currentUserId, connected,
                    liveGroup, tasks, lastEv, authedAs >>

DeleteUserMessages ==
    /\ del.pc = "messages"
    /\ messages' = { m \in messages : m.senderId # del.userId }
    /\ del' = [del EXCEPT !.pc = "users"]
    /\ fin' = NoTask
    /\ run' = NoRun
    /\ UNCHANGED << call, gen, catalog, users, participants, nextMsgId, presence, currentUserId,
                    connected, liveGroup, tasks, nRequests, lastEv, authedAs >>

DeleteUserRow ==
    /\ del.pc = "users"
    /\ IF deleteUserRowAccepted(del.userId)
       THEN /\ users' = users \ {del.userId}
            /\ participants' = { p \in participants : p.userId # del.userId }
       ELSE UNCHANGED << users, participants >>
    /\ del' = NoDel
    /\ fin' = NoTask
    /\ run' = NoRun
    /\ UNCHANGED << call, gen, catalog, messages, nextMsgId, presence, currentUserId, connected,
                    liveGroup, tasks, nRequests, lastEv, authedAs >>

\* ------------------------------------------------------------------ Next
Next ==
    \/ \E c \in Conns, userId \in AuthIds : authenticate(c, userId)
    \/ \E i \in SlotIds : AuthenticateGetUserById(i)
    \/ \E c \in Conns, roomId \in RoomIds : join_room(c, roomId)
    \/ \E i \in SlotIds : JoinIsUserInRoom(i)
    \/ \E i \in SlotIds : JoinGetUserById(i)
    \/ \E i \in SlotIds : JoinGetOnlineUsers(i)
    \/ \E c \in Conns, roomId \in RoomIds : leave_room(c, roomId)
    \/ \E c \in Conns, roomId \in RoomIds, isTyping \in BOOLEAN : typing(c, roomId, isTyping)
    \/ \E c \in Conns, roomId \in RoomIds, content \in Contents : send_message(c, roomId, content)
    \/ \E i \in SlotIds : SendIsUserInRoom(i)
    \/ \E i \in SlotIds : SendGetRoomById(i)
    \/ \E i \in SlotIds : SendGetRoomParticipants(i)
    \/ \E i \in SlotIds : SendTranslateMessage(i)
    \/ \E i \in SlotIds : SendCreateMessage(i)
    \/ \E i \in SlotIds : SendGetUserById(i)
    \/ \E c \in Conns : disconnect(c)
    \/ \E i \in SlotIds : DisconnectGetOnlineUsers(i)
    \/ \E userId \in InitUsers, roomId \in RoomIds : RestLeaveRoom(userId, roomId)
    \/ \E userId \in InitUsers : RestDeleteAccount(userId)
    \/ DeleteUserMessages
    \/ DeleteUserRow

Spec == Init /\ [][Next]_vars

\* the awaited Store and Translator calls of a send_message handler settle
SendStep(i) ==
    \/ SendIsUserInRoom(i)
    \/ SendGetRoomById(i)
    \/ SendGetRoomParticipants(i)
    \/ SendTranslateMessage(i)
    \/ SendCreateMessage(i)
    \/ SendGetUserById(i)

\* Sends to room 1 of a text with words, next to everything that can get in
\* their way: an authenticate naming another user or none, a disconnect, a REST
\* leave and the deletion of an account.  A Store or Translator call a send
\* awaits does settle.
InitLive ==
    /\ Init
    /\ \A c \in Conns : currentUserId[c] # NoUser

NextLive ==
    \/ \E c \in Conns : send_message(c, 1, <<"h", " ">>)
    \/ \E i \in SlotIds : SendStep(i)
    \/ \E c \in Conns, userId \in AuthIds : authenticate(c, userId)
    \/ \E i \in SlotIds : AuthenticateGetUserById(i)
    \/ \E c \in Conns : disconnect(c)
    \/ \E i \in SlotIds : DisconnectGetOnlineUsers(i)
    \/ \E userId \in InitUsers : RestLeaveRoom(userId, 1)
    \/ \E userId \in InitUsers : RestDeleteAccount(userId)
    \/ DeleteUserMessages
    \/ DeleteUserRow

SpecLive == InitLive /\ [][NextLive]_vars /\ \A i \in SlotIds : WF_vars(SendStep(i))

\* ------------------------------------------------- REST routes of rooms
\* POST /api/rooms (storage.createRoom) and POST /api/rooms/join
\* (storage.joinRoom), one step per awaited statement, with no socket traffic.
MaxAttempts == 10

\* generateRoomCode: the alphabet, and one character per value of Math.random()
chars ==
    << "A", "B", "C", "D", "E", "F", "G", "H", "J", "K", "L", "M", "N", "P", "Q", "R",
       "S", "T", "U", "V", "W", "X", "Y", "Z", "2", "3", "4", "5", "6", "7", "8", "9" >>
CodeLength == 6

\* String.charAt: the empty string beyond the end
charAt(str, index) == IF index + 1 \in DOMAIN str THEN str[index + 1] ELSE ""

\* Math.floor(Math.random() * n), Math.random() given in thousandths
floorRandom(random, n) == (random * n) \div 1000

RECURSIVE generateRoomCodeLoop(_, _, _)
generateRoomCodeLoop(code, i, randoms) ==
    IF i < CodeLength
    THEN LET ch == charAt(chars, floorRandom(randoms[i + 1], Len(chars)))
         IN generateRoomCodeLoop(IF ch = "" THEN code ELSE Append(code, ch), i + 1, randoms)
    ELSE code

generateRoomCode(randoms) == generateRoomCodeLoop(<<>>, 0, randoms)

\* what generateRoomCode returns in the runs of createRoom: AAAAAA and AAAAAJ
Codes ==
    { generateRoomCode(randoms) :
        randoms \in { <<0, 0, 0, 0, 0, 0>>, <<0, 0, 0, 0, 0, 250>> } }
\* req.body.roomCode and req.body.language of POST /api/rooms/join
JoinCodes == { <<"b", "b", "b", "b", "b", "b">>, <<"A", "A", "A", "A", "A", "J">> }
JoinLanguages == {"", "fr"}

Upper ==
    [a |-> "A", b |-> "B", c |-> "C", d |-> "D", e |-> "E", f |-> "F", g |-> "G",
     h |-> "H", i |-> "I", j |-> "J", k |-> "K", l |-> "L", m |-> "M", n |-> "N",
     o |-> "O", p |-> "P", q |-> "Q", r |-> "R", s |-> "S", t |-> "T", u |-> "U",
     v |-> "V", w |-> "W", x |-> "X", y |-> "Y", z |-> "Z"]

\* the string compared as it is
toUpperCase_asIs(code) == code

toUpperCase(code) ==
    [k \in DOMAIN code |-> IF code[k] \in DOMAIN Upper THEN Upper[code[k]] ELSE code[k]]

preferredLanguage(u) == IF u = 1 THEN "en" ELSE "es"

getRoomByCode(roomCode) ==
    IF \E r \in rooms : r.roomCode = toUpperCase(roomCode)
    THEN CHOOSE r \in rooms : r.roomCode = toUpperCase(roomCode)
    ELSE NoRow

\* rooms.room_code is UNIQUE and rooms.created_by references users
\* the unique constraint dropped
insertRoomAccepted_noUnique(roomCode, userId) == userId \in users

insertRoomAccepted(roomCode, userId) ==
    /\ \A r \in rooms : r.roomCode # roomCode
    /\ userId \in users

\* room_participants references rooms and users; no constraint on the pair
insertParticipantAccepted(roomId, userId) ==
    getRoomById(roomId) # NoRow /\ userId \in users

NewReq(kind, userId, pc, roomCode, language) ==
    [NoReq EXCEPT !.kind = kind, !.userId = userId, !.pc = pc, !.roomCode = roomCode,
                  !.language = language, !.outcome = "pending"]

HasFreeReq(u) == \E i \in 1..MaxTasks : reqs[<<u, i>>].kind = "none"
FreeReqSlot(u) ==
    << u, CHOOSE i \in 1..MaxTasks :
              /\ reqs[<<u, i>>].kind = "none"
              /\ \A j \in 1..(i - 1) : reqs[<<u, j>>].kind # "none" >>

Receive(q) == reqs' = [reqs EXCEPT ![FreeReqSlot(q.userId)] = q] /\ resp' = NoReq
Proceed(i, q) == reqs' = [reqs EXCEPT ![i] = q] /\ resp' = NoReq
Respond(i, q, o) ==
    /\ reqs' = [reqs EXCEPT ![i] = NoReq]
    /\ resp' = [q EXCEPT !.outcome = o, !.pc = "returned"]

socketState ==
    << call, gen, messages, nextMsgId, onlineUsers, userRooms, currentUserId, connected,
       liveGroup, tasks, fin, del, lastEv, authedAs, run >>

InitStore ==
    /\ users = InitUsers
    /\ participants = InitParticipants
    /\ messages = {}
    /\ nextMsgId = 1
    /\ onlineUsers = EmptyMap
    /\ userRooms = EmptyMap
    /\ currentUserId = [c \in Conns |-> NoUser]
    /\ connected = [c \in Conns |-> TRUE]
    /\ liveGroup = [r \in RoomIds |-> {}]
    /\ tasks = [i \in SlotIds |-> NoTask]
    /\ fin = NoTask
    /\ del = NoDel
    /\ nRequests = 0
    /\ lastEv = [c \in Conns |-> [r \in RoomIds |-> "none"]]
    /\ authedAs = [c \in Conns |-> {}]
    /\ run = NoRun
    /\ rooms = InitRooms
    /\ nextRoomId = 3
    /\ nextPartId = 4
    /\ reqs = [i \in ReqSlots |-> NoReq]
    /\ resp = NoReq
    /\ call = NoCall
    /\ gen = NoGen

\* POST /api/rooms: createRoom draws its first code
RestCreateRoom(userId) ==
    /\ userId \in users /\ nRequests < MaxRequests /\ HasFreeReq(userId)
    /\ \E code \in Codes : Receive(NewReq("createRoom", userId, "probe", code, "en"))
    /\ nRequests' = nRequests + 1
    /\ UNCHANGED << socketState, users, participants, rooms, nextRoomId, nextPartId >>

\* one turn of the while loop: the select of the current code returns
CreateRoomProbe(i) ==
    LET q == reqs[i]
        existing == { r \in rooms : r.roomCode = q.roomCode }
    IN /\ q.kind = "createRoom" /\ q.pc = "probe"
       /\ IF existing = {}
          THEN Proceed(i, [q EXCEPT !.probes = @ + 1, !.pc = "insertRoom"])
          ELSE \E code \in Codes :
                  Proceed(i, [q EXCEPT !.probes = @ + 1,
                                       !.roomCode = code,
                                       !.attempts = @ + 1,
                                       !.pc = IF q.attempts + 1 < MaxAttempts
                                              THEN "probe" ELSE "insertRoom"])
       /\ UNCHANGED << socketState, users, participants, rooms, nextRoomId,
                       nextPartId, nRequests >>

CreateRoomInsert(i) ==
    LET q == reqs[i]
        room == [id |-> nextRoomId, roomCode |-> q.roomCode, createdBy |-> q.userId]
    IN /\ q.kind = "createRoom" /\ q.pc = "insertRoom"
       /\ IF insertRoomAccepted(q.roomCode, q.userId)
          THEN /\ rooms' = rooms \cup {room}
               /\ nextRoomId' = nextRoomId + 1
               /\ Proceed(i, [q EXCEPT !.room = room, !.pc = "insertParticipant"])
          ELSE /\ Respond(i, q, "threw")
               /\ UNCHANGED << rooms, nextRoomId >>
       /\ UNCHANGED << socketState, users, participants, nextPartId, nRequests >>

CreateRoomInsertParticipant(i) ==
    LET q == reqs[i]
        row == [id |-> nextPartId, roomId |-> q.room.id, userId |-> q.userId,
                language |-> q.language]
    IN /\ q.kind = "createRoom" /\ q.pc = "insertParticipant"
       /\ IF insertParticipantAccepted(q.room.id, q.userId)
          THEN /\ participants' = participants \cup {row}
               /\ nextPartId' = nextPartId + 1
               /\ Respond(i, [q EXCEPT !.result = q.room], "ok")
          ELSE /\ Respond(i, q, "threw")
               /\ UNCHANGED << participants, nextPartId >>
       /\ UNCHANGED << socketState, users, rooms, nextRoomId, nRequests >>

\* POST /api/rooms/join
RestJoinRoom(userId, roomCode, language) ==
    /\ userId \in users /\ nRequests < MaxRequests /\ HasFreeReq(userId)
    /\ Receive(NewReq("joinRoom", userId, "getRoomByCode", roomCode, language))
    /\ nRequests' = nRequests + 1
    /\ UNCHANGED << socketState, users, participants, rooms, nextRoomId, nextPartId >>

JoinGetRoomByCode(i) ==
    LET q == reqs[i]
        room == getRoomByCode(q.roomCode)
    IN /\ q.kind = "joinRoom" /\ q.pc = "getRoomByCode"
       /\ IF room = NoRow
          THEN Respond(i, q, "notfound")
          ELSE Proceed(i, [q EXCEPT !.room = room, !.pc = "getUserById"])
       /\ UNCHANGED << socketState, users, participants, rooms, nextRoomId,
                       nextPartId, nRequests >>

JoinRoomGetUserById(i) ==
    LET q == reqs[i]
        user == getUserById(q.userId)
        language == IF q.language # "" THEN q.language
                    ELSE IF user # NoRow /\ preferredLanguage(user.id) # ""
                         THEN preferredLanguage(user.id) ELSE "en"
    IN /\ q.kind = "joinRoom" /\ q.pc = "getUserById"
       /\ Proceed(i, [q EXCEPT !.language = language, !.pc = "select"])
       /\ UNCHANGED << socketState, users, participants, rooms, nextRoomId,
                       nextPartId, nRequests >>

\* storage.joinRoom: the select of the pair returns
JoinRoomSelect(i) ==
    LET q == reqs[i]
        existing == { p \in participants : p.roomId = q.room.id /\ p.userId = q.userId }
    IN /\ q.kind = "joinRoom" /\ q.pc = "select"
       /\ IF existing # {}
          THEN Respond(i, [q EXCEPT !.result = firstRow(existing)], "ok")
          ELSE Proceed(i, [q EXCEPT !.pc = "insert"])
       /\ UNCHANGED << socketState, users, participants, rooms, nextRoomId,
                       nextPartId, nRequests >>

\* storage.joinRoom: the insert of the pair
JoinRoomInsert(i) ==
    LET q == reqs[i]
        row == [id |-> nextPartId, roomId |-> q.room.id, userId |-> q.userId,
                language |-> q.language]
    IN /\ q.kind = "joinRoom" /\ q.pc = "insert"
       /\ IF insertParticipantAccepted(q.room.id, q.userId)
          THEN /\ participants' = participants \cup {row}
               /\ nextPartId' = nextPartId + 1
               /\ Respond(i, [q EXCEPT !.result = row], "ok")
          ELSE /\ Respond(i, q, "threw")
               /\ UNCHANGED << participants, nextPartId >>
       /\ UNCHANGED << socketState, users, rooms, nextRoomId, nRequests >>

NextStore ==
    \/ \E userId \in InitUsers : RestCreateRoom(userId)
    \/ \E i \in ReqSlots : CreateRoomProbe(i)
    \/ \E i \in ReqSlots : CreateRoomInsert(i)
    \/ \E i \in ReqSlots : CreateRoomInsertParticipant(i)
    \/ \E userId \in InitUsers, roomCode \in JoinCodes, language \in JoinLanguages :
          RestJoinRoom(userId, roomCode, language)
    \/ \E i \in ReqSlots : JoinGetRoomByCode(i)
    \/ \E i \in ReqSlots : JoinRoomGetUserById(i)
    \/ \E i \in ReqSlots : JoinRoomSelect(i)
    \/ \E i \in ReqSlots : JoinRoomInsert(i)
    \/ \E userId \in InitUsers, roomId \in RoomIds : RestLeaveRoom(userId, roomId)

SpecStore == InitStore /\ [][NextStore]_vars

\* -------------------------------------------- translateMessage on its own
\* One call of translateMessage (server/translation.ts) with any text, any list
\* of target languages and any reply of the remote model.
Langs == {"en", "es", "fr"}
\* the confidence of a reply, in hundredths
Confidences == {-10, 0, 50, 100, 150}

\* what JSON.parse can yield for the reply of the remote model: a missing
\* detectedLanguage is "", a missing translations object is the empty map
JsonReplies(text) ==
    { [kind |-> "json", detectedLanguage |-> d, translations |-> tr, confidence |-> cf] :
        d \in {"", "es"},
        tr \in UNION { [ls -> {text, TranslatedText("x", text)}] : ls \in SUBSET Langs },
        cf \in Confidences }

ModelReplies(text) == { [kind |-> "throw"], [kind |-> "text"] } \cup JsonReplies(text)

InitTranslate ==
    /\ \E text \in Contents, targetLanguages \in SUBSET Langs :
          call = [NoCall EXCEPT !.pc = "create", !.text = text,
                                !.targetLanguages = targetLanguages]
    /\ users = InitUsers
    /\ participants = InitParticipants
    /\ messages = {}
    /\ nextMsgId = 1
    /\ onlineUsers = EmptyMap
    /\ userRooms = EmptyMap
    /\ currentUserId = [c \in Conns |-> NoUser]
    /\ connected = [c \in Conns |-> TRUE]
    /\ liveGroup = [r \in RoomIds |-> {}]
    /\ tasks = [i \in SlotIds |-> NoTask]
    /\ fin = NoTask
    /\ del = NoDel
    /\ nRequests = 0
    /\ lastEv = [c \in Conns |-> [r \in RoomIds |-> "none"]]
    /\ authedAs = [c \in Conns |-> {}]
    /\ run = NoRun
    /\ rooms = InitRooms
    /\ nextRoomId = 3
    /\ nextPartId = 4
    /\ reqs = [i \in ReqSlots |-> NoReq]
    /\ resp = NoReq
    /\ gen = NoGen

\* the call of the remote model settles and translateMessage returns
TranslateMessageReturn ==
    /\ call.pc = "create"
    /\ \E reply \in ModelReplies(call.text) :
          call' = [call EXCEPT !.reply = reply, !.pc = "returned",
                               !.result = translateMessage(call.text,
                                                           call.targetLanguages, reply)]
    /\ UNCHANGED << users, participants, messages, nextMsgId, onlineUsers, userRooms,
                    currentUserId, connected, liveGroup, tasks, fin, del, nRequests,
                    lastEv, authedAs, run, rooms, nextRoomId, nextPartId, reqs, resp,
                    gen >>

NextTranslate == TranslateMessageReturn

SpecTranslate == InitTranslate /\ [][NextTranslate]_vars

\* ------------------------------------------------ room codes on their own
\* One run of generateRoomCode with any values of Math.random(), the code
\* stored by createRoom, and a lookup of it by getRoomByCode in any letter case.
\* Math.random() in thousandths: its least value, one inside, its greatest
Randoms == {0, 531, 999}

toLowerCase(code) ==
    [k \in DOMAIN code |->
        IF \E l \in DOMAIN Upper : Upper[l] = code[k]
        THEN CHOOSE l \in DOMAIN Upper : Upper[l] = code[k]
        ELSE code[k]]

\* req.body.roomCode naming the code: as it is, in lower case, in mixed case
LetterCases(code) ==
    { code, toLowerCase(code),
      [k \in DOMAIN code |-> IF k % 2 = 1 THEN toLowerCase(code)[k] ELSE code[k]] }

InitCode ==
    /\ \E randoms \in [1..CodeLength -> Randoms] :
          gen = [NoGen EXCEPT !.pc = "generate", !.randoms = randoms]
    /\ call = NoCall
    /\ users = InitUsers
    /\ participants = InitParticipants
    /\ messages = {}
    /\ nextMsgId = 1
    /\ onlineUsers = EmptyMap
    /\ userRooms = EmptyMap
    /\ currentUserId = [c \in Conns |-> NoUser]
    /\ connected = [c \in Conns |-> TRUE]
    /\ liveGroup = [r \in RoomIds |-> {}]
    /\ tasks = [i \in SlotIds |-> NoTask]
    /\ fin = NoTask
    /\ del = NoDel
    /\ nRequests = 0
    /\ lastEv = [c \in Conns |-> [r \in RoomIds |-> "none"]]
    /\ authedAs = [c \in Conns |-> {}]
    /\ run = NoRun
    /\ rooms = InitRooms
    /\ nextRoomId = 3
    /\ nextPartId = 4
    /\ reqs = [i \in ReqSlots |-> NoReq]
    /\ resp = NoReq

\* createRoom of user 1: the code is generated and, when no room has it, stored
GenerateRoomCode ==
    LET roomCode == generateRoomCode(gen.randoms)
        room == [id |-> nextRoomId, roomCode |-> roomCode, createdBy |-> 1]
    IN /\ gen.pc = "generate"
       /\ gen' = [gen EXCEPT !.code = roomCode, !.pc = "generated"]
       /\ IF insertRoomAccepted(roomCode, 1)
          THEN rooms' = rooms \cup {room} /\ nextRoomId' = nextRoomId + 1
          ELSE UNCHANGED << rooms, nextRoomId >>
       /\ UNCHANGED << call, users, participants, messages, nextMsgId, onlineUsers,
                       userRooms, currentUserId, connected, liveGroup, tasks, fin, del,
                       nRequests, lastEv, authedAs, run, nextPartId, reqs, resp >>

LookupRoomByCode ==
    /\ gen.pc = "generated"
    /\ \E roomCode \in LetterCases(gen.code) :
          gen' = [gen EXCEPT !.query = roomCode, !.room = getRoomByCode(roomCode),
                             !.pc = "looked up"]
    /\ UNCHANGED << call, users, participants, messages, nextMsgId, onlineUsers,
                    userRooms, currentUserId, connected, liveGroup, tasks, fin, del,
                    nRequests, lastEv, authedAs, run, rooms, nextRoomId, nextPartId,
                    reqs, resp >>

NextCode == GenerateRoomCode \/ LookupRoomByCode

SpecCode == InitCode /\ [][NextCode]_vars

\* ================================================================ claims
IsSend(t) == t.kind = "send_message"

Broadcasts(t) == EventsOf(t, "new_message")

participantIds(roomId) == { p.userId : p \in { q \in participants : q.roomId = roomId } }

\* C1: a send emits new_message only after storage.createMessage has completed
\* for that very message, and a send whose createMessage fails emits none.
C1_PersistBeforeBroadcast ==
    /\ \A i \in SlotIds : Broadcasts(tasks[i]) = {}
    /\ \A k \in Broadcasts(fin) :
          /\ fin.message # NoRow
          /\ fin.message.id < nextMsgId
          /\ fin.sent[k].body.message = fin.message
    /\ (IsSend(fin) /\ fin.outcome = "threw") => Broadcasts(fin) = {}

C1_Witness ==
    /\ IsSend(fin) /\ fin.outcome = "ok"
    /\ Cardinality(Broadcasts(fin)) = 1
    /\ fin.message \in messages

C1_FailureReached == IsSend(fin) /\ fin.outcome = "threw"

\* C2: at the moment new_message is broadcast the message is in the Store and a
\* history fetch of its room returns it.
C2_BroadcastRetrievable ==
    \A k \in Broadcasts(fin) :
        /\ fin.sent[k].body.message \in messages
        /\ \E j \in DOMAIN getRoomMessages(fin.roomId, HistoryLimit) :
              getRoomMessages(fin.roomId, HistoryLimit)[j].message = fin.sent[k].body.message

\* C3: with no participant language other than the sender's, or with content
\* that is empty after trimming, the send never calls the Translator and what it
\* persists and broadcasts carries detectedLanguage = senderLang, an empty
\* translation map and confidence 1.0.
Decided(t) == IsSend(t) /\ t.senderLang # ""

SkipsTranslation(t) == t.targetLanguages = {} \/ trim(t.content) = <<>>

C3_SkipOf(t) ==
    (Decided(t) /\ SkipsTranslation(t)) =>
        /\ t.calls = 0
        /\ t.reply = ""
        /\ t.pc \in {"createMessage", "getUserById", "returned"}
        /\ t.translationResult =
              [detectedLanguage |-> t.senderLang, translations |-> EmptyMap,
               confidence |-> 100]
        /\ t.message # NoRow =>
              /\ t.message.originalLanguage = t.senderLang
              /\ t.message.translatedContent = EmptyMap
        /\ t.pc = "returned" =>
              \/ t.outcome = "threw" /\ t.message = NoRow
              \/ /\ t.outcome = "ok"
                 /\ Cardinality(Broadcasts(t)) = 1
                 /\ \A k \in Broadcasts(t) :
                       /\ t.sent[k].body.message = t.message
                       /\ t.sent[k].body.translationResult =
                             [detectedLanguage |-> t.senderLang,
                              translations |-> EmptyMap, confidence |-> 100]

C3_SkipTranslation ==
    /\ \A i \in SlotIds : C3_SkipOf(tasks[i])
    /\ C3_SkipOf(fin)

C3_Witness ==
    /\ Decided(fin) /\ fin.outcome = "ok"
    /\ trim(fin.content) = <<>> /\ fin.targetLanguages # {}
    /\ fin.message \in messages

C3_WitnessNoTargets ==
    /\ Decided(fin) /\ fin.outcome = "ok"
    /\ fin.targetLanguages = {} /\ fin.message \in messages

\* C4: when the Translator call fails (it throws, or its reply holds no JSON)
\* translateMessage returns the original text for every requested target
\* language with confidence 0, and the send goes on to persist and broadcast.
TranslatorFailed(t) == IsSend(t) /\ t.reply \in {"throw", "text"}

C4_FailureOf(t) ==
    TranslatorFailed(t) =>
        /\ t.calls = 1
        /\ DOMAIN t.translationResult.translations = t.targetLanguages
        /\ \A l \in t.targetLanguages : t.translationResult.translations[l] = t.content
        /\ t.translationResult.confidence = 0
        /\ t.pc \in {"createMessage", "getUserById", "returned"}
        /\ t.message # NoRow =>
              t.message.translatedContent = t.translationResult.translations
        /\ t.pc = "returned" =>
              \/ t.outcome = "threw" /\ t.message = NoRow
              \/ /\ t.outcome = "ok"
                 /\ t.message # NoRow
                 /\ Cardinality(Broadcasts(t)) = 1
                 /\ \A k \in Broadcasts(t) :
                       /\ t.sent[k].body.message = t.message
                       /\ t.sent[k].body.translationResult = t.translationResult

C4_TranslatorFailure ==
    /\ \A i \in SlotIds : C4_FailureOf(tasks[i])
    /\ C4_FailureOf(fin)

C4_Witness ==
    /\ TranslatorFailed(fin) /\ fin.outcome = "ok"
    /\ fin.targetLanguages # {}
    /\ fin.message \in messages
    /\ Cardinality(Broadcasts(fin)) = 1

\* C5: once all handlers of an authenticated connection have finished, the
\* connection is in the live group of a room its user is a member of, and the
\* room in its reverse index, exactly if the last of the join_room / leave_room
\* events it received for that room was join_room.
StoreUntouched == users = InitUsers /\ participants = InitParticipants

C5_LastEventWins ==
    \A c \in Conns, r \in RoomIds :
        ( /\ connected[c] /\ InFlight(c) = {}
          /\ Authenticated(c)
          /\ StoreUntouched
          /\ isUserInRoom(r, currentUserId[c])
          /\ lastEv[c][r] # "none" )
        => /\ c \in liveGroup[r] <=> lastEv[c][r] = "join_room"
           /\ (MapHas(userRooms, c) /\ r \in userRooms[c]) <=> lastEv[c][r] = "join_room"

\* C6: a second join_room of the same connection and room, with nothing in
\* between, leaves the live group and the reverse index as after the first, and
\* each of the two calls emits one online_users with the same users.
C6_JoinIdempotent ==
    \A k \in 1..Len(run.snaps) :
        /\ run.snaps[k].emitted = 1
        /\ run.snaps[k] = run.snaps[1]
        /\ run.conn \in run.snaps[k].group
        /\ run.roomId \in run.snaps[k].index[run.conn]

C6_Witness == Len(run.snaps) = 2 /\ run.snaps[2].users # {}

\* C7: the online set computed for a room is a subset of the user ids of the
\* room's Store participants.
C7_OnlineSubsetOfParticipants ==
    \A r \in RoomIds : getOnlineUsersInRoom(r) \subseteq participantIds(r)

C7_Witness ==
    \E k \in EventsOf(fin, "online_users") :
        /\ fin.sent[k].body = getOnlineUsersInRoom(fin.sent[k].roomId)
        /\ fin.sent[k].body # {}
        /\ \E u \in DOMAIN onlineUsers : u \notin participantIds(fin.sent[k].roomId)

\* C8: the online set computed for a room is exactly the set of the room's
\* participants that have a connected, authenticated connection.
LiveUsers == UNION { authedAs[c] : c \in { d \in Conns : connected[d] } }

C8_OnlineExact ==
    \A r \in RoomIds :
        getOnlineUsersInRoom(r) = { p.userId : p \in getRoomParticipants(r) } \cap LiveUsers

\* C9: the disconnect of an authenticated connection emits, for each room the
\* connection had joined, exactly one user_left and one online_users to the
\* other members, and none for any other room.
EventsFor(t, type, roomId) ==
    { k \in EventsOf(t, type) : t.sent[k].roomId = roomId }

C9_DisconnectOf(t) ==
    (t.kind = "disconnect" /\ t.uid # NoUser) =>
        /\ \A r \in RoomIds \ t.joined :
              EventsFor(t, "user_left", r) = {} /\ EventsFor(t, "online_users", r) = {}
        /\ \A r \in t.joined :
              /\ Cardinality(EventsFor(t, "user_left", r)) <= 1
              /\ Cardinality(EventsFor(t, "online_users", r)) <= 1
              /\ \A k \in EventsFor(t, "user_left", r) \cup EventsFor(t, "online_users", r) :
                    t.conn \notin t.sent[k].to
        /\ t.pc = "returned" =>
              \A r \in t.joined :
                  /\ Cardinality(EventsFor(t, "user_left", r)) = 1
                  /\ Cardinality(EventsFor(t, "online_users", r)) = 1

C9_DisconnectEmissions ==
    /\ \A i \in SlotIds : C9_DisconnectOf(tasks[i])
    /\ C9_DisconnectOf(fin)

\* C10: once a connection has disconnected and all of its handlers have
\* finished, its id is in no user's connection set and has no reverse-index
\* entry.
C10_NoStalePresence ==
    \A c \in Conns :
        (~connected[c] /\ InFlight(c) = {}) =>
            /\ \A u \in DOMAIN onlineUsers : c \notin onlineUsers[u]
            /\ ~MapHas(userRooms, c)

\* C11: after an authenticate naming a user id without a row the connection got
\* an error event, has no presence entry and stays unauthenticated: join_room
\* and send_message on it are rejected as not authenticated, typing and
\* leave_room on it deliver nothing.
NeverAuthenticated(c) ==
    /\ authedAs[c] = {}
    /\ \A i \in InFlight(c) : tasks[i].kind # "authenticate"

C11_FailedAuthenticate ==
    /\ \A c \in Conns :
          authedAs[c] = {} => \A u \in DOMAIN onlineUsers : c \notin onlineUsers[u]
    /\ (fin.kind = "authenticate" /\ fin.outcome = "rejected" /\ connected[fin.conn]) =>
          \E k \in EventsOf(fin, "error") : fin.sent[k].to = {fin.conn}
    /\ (fin.kind # "none" /\ NeverAuthenticated(fin.conn)) =>
          /\ fin.kind \in {"join_room", "send_message"} =>
                /\ fin.outcome = "rejected"
                /\ \E k \in EventsOf(fin, "error") :
                      fin.sent[k].body = "Not authenticated"
          /\ fin.kind \in {"typing", "leave_room"} =>
                \A k \in DOMAIN fin.sent : fin.sent[k].to = {}

\* C12: join_room puts a connection into a room's live group only if the
\* connection is authenticated and its user is a participant of the room in the
\* Store; a rejected join_room changes neither the live groups nor the reverse
\* index, emits no user_joined and no online_users, and its only event is an
\* error to the caller.
C12_JoinGuard ==
    [][ /\ \A c \in Conns, r \in RoomIds :
              (c \notin liveGroup[r] /\ c \in liveGroup'[r]) =>
                  /\ currentUserId[c] \in authedAs[c]
                  /\ isUserInRoom(r, currentUserId[c])
        /\ (fin'.kind = "join_room" /\ fin'.outcome = "rejected") =>
              /\ liveGroup' = liveGroup /\ userRooms' = userRooms
              /\ EventsOf(fin', "user_joined") = {}
              /\ EventsOf(fin', "online_users") = {}
              /\ \A k \in DOMAIN fin'.sent :
                    fin'.sent[k].type = "error" /\ fin'.sent[k].to \subseteq {fin'.conn}
      ]_vars

\* C13: a step of a socket handler never changes the users, the participants or
\* the rooms of the Store; the only Store write of a socket handler is the
\* insertion of one new Message by send_message.
SocketStep == tasks' # tasks \/ fin' # NoTask

C13_SocketWrites ==
    [][ SocketStep =>
          /\ users' = users /\ participants' = participants /\ rooms' = rooms
          /\ \/ messages' = messages
             \/ \E i \in SlotIds :
                   /\ IsSend(tasks[i])
                   /\ tasks'[i].message \notin messages
                   /\ messages' = messages \cup {tasks'[i].message}
      ]_vars

C13_Witness ==
    /\ IsSend(fin) /\ fin.outcome = "ok"
    /\ \E m \in messages : m.id = 2
    /\ StoreUntouched /\ rooms = InitRooms

\* C14: a send persists and broadcasts a message only if the connection is
\* authenticated and the Store, asked during that send, reported the message's
\* sender as a participant of the room.
C14_SendOf(t) ==
    (IsSend(t) /\ (t.message # NoRow \/ Broadcasts(t) # {})) =>
        /\ t.member # NoUser
        /\ t.message.senderId = t.member
        /\ t.member \in authedAs[t.conn]

C14_MembershipPerSend ==
    /\ \A i \in SlotIds : C14_SendOf(tasks[i])
    /\ C14_SendOf(fin)

\* C15: a send_message that is rejected because the connection is not
\* authenticated or its user is not a member of the room emits nothing, neither
\* to the room nor to the sending connection.
C15_SilentRejection ==
    (IsSend(fin) /\ fin.outcome = "rejected") => fin.sent = <<>>

\* C16: every error event and every authenticated acknowledgement goes only to
\* the connection whose event caused it, and a failed operation of a connection
\* changes neither the presence entries of the other connections nor any live
\* group.
PresenceOf(d) ==
    << { u \in DOMAIN onlineUsers : d \in onlineUsers[u] },
       IF MapHas(userRooms, d) THEN userRooms[d] ELSE {} >>

Failed(t) == t.outcome \in {"rejected", "threw"}

C16_ErrorsAreLocal ==
    [][ /\ \A k \in EventsOf(fin', "error") \cup EventsOf(fin', "authenticated") :
              fin'.sent[k].to \subseteq {fin'.conn}
        /\ Failed(fin') =>
              /\ liveGroup' = liveGroup
              /\ \A d \in Conns \ {fin'.conn} : PresenceOf(d)' = PresenceOf(d)
      ]_vars

C16_Witness ==
    /\ Failed(fin)
    /\ \E k \in EventsOf(fin, "error") : fin.sent[k].to = {fin.conn}
    /\ \E d \in Conns \ {fin.conn} :
          /\ PresenceOf(d)[1] # {} /\ PresenceOf(d)[2] # {}
          /\ \E r \in RoomIds : d \in liveGroup[r]

\* C17: a new_message or online_users event of a room is delivered only to
\* connections whose user is a participant of that room in the Store when it is
\* emitted.
\* the user ids a connection has named or authenticated as
Identities(d) == authedAs[d] \cup ({currentUserId[d]} \ {NoUser})

C17_NoDeliveryToNonMembers ==
    \A k \in DOMAIN fin.sent :
        (k = Len(fin.sent) /\ fin.sent[k].type \in {"new_message", "online_users"}) =>
            \A d \in fin.sent[k].to :
                \E u \in Identities(d) : isUserInRoom(fin.sent[k].roomId, u)

\* C18: the Store never holds two Participant rows of the same room and user,
\* also when joins of that pair (or the room's creation and a join) overlap,
\* and a join answered for a pair returns a row of that pair that is in the
\* Store.
C18_OneRowPerPair ==
    /\ \A p \in participants, q \in participants :
          (p.roomId = q.roomId /\ p.userId = q.userId) => p = q
    /\ (resp.kind = "joinRoom" /\ resp.outcome = "ok") =>
          /\ resp.result \in participants
          /\ resp.result.roomId = resp.room.id /\ resp.result.userId = resp.userId

\* C19: no two rooms of the Store have the same join code, however the probes
\* and inserts of concurrent createRoom calls interleave.
C19_UniqueCodes ==
    \A r \in rooms, q \in rooms : r.roomCode = q.roomCode => r = q

\* a createRoom found its code free and lost the insert to a concurrent one
C19_Witness ==
    /\ resp.kind = "createRoom" /\ resp.outcome = "threw"
    /\ resp.attempts = 0 /\ resp.probes = 1
    /\ \E r \in rooms \ InitRooms : r.roomCode = resp.roomCode

\* C20: createRoom probes for a collision at most 10 times, and when every
\* probed code collided it still creates and returns a room.
AllProbesCollided(q) ==
    q.kind = "createRoom" /\ q.probes = MaxAttempts /\ q.attempts = MaxAttempts

C20_RetryThenCreate ==
    /\ \A i \in ReqSlots : reqs[i].probes <= MaxAttempts
    /\ resp.probes <= MaxAttempts
    /\ (AllProbesCollided(resp) /\ resp.userId \in users) =>
          /\ resp.outcome = "ok"
          /\ resp.result \in rooms

\* C21: a persisted Message is never removed from the Store and never changed:
\* every step of the program keeps every row of table messages as it is, so the
\* set of persisted messages only grows.
C21_MessagesAppendOnly ==
    [][ \A m \in messages : m \in messages' ]_vars

\* C22: a call of translateMessage with at least one target language returns,
\* whatever the remote model replied, a translation map with an entry for every
\* requested target language and a confidence between 0 and 1.
C22_TranslatorContract ==
    (call.pc = "returned" /\ call.targetLanguages # {}) =>
        /\ \A l \in call.targetLanguages : l \in DOMAIN call.result.translations
        /\ call.result.confidence \in 0..100

\* C23: a send_message that passed the authentication and the membership check
\* has, when its handler is done, persisted one Message and emitted exactly one
\* new_message, addressed to exactly the connections of the room's live group
\* and carrying the persisted message with its whole translation map.
PassedChecks(t) == IsSend(t) /\ t.member # NoUser

C23_OneBroadcastPerSend ==
    /\ \A i \in SlotIds : Cardinality(Broadcasts(tasks[i])) = 0
    /\ PassedChecks(fin) =>
          /\ fin.message # NoRow
          /\ Cardinality(Broadcasts(fin)) = 1
          /\ \A k \in Broadcasts(fin) :
                /\ fin.sent[k].to = liveGroup[fin.roomId]
                /\ fin.sent[k].body.message = fin.message
                /\ fin.sent[k].body.translationResult = fin.translationResult
                /\ fin.message.translatedContent = fin.translationResult.translations

\* C24: the target languages of a send are exactly the languages of the
\* participants the handler fetched for the room, without senderLang, and
\* senderLang is the language of the sender's participant row of that room.
Fetched(t) == IsSend(t) /\ t.senderLang # ""

C24_TargetsOf(t) ==
    Fetched(t) =>
        /\ \A p \in t.participants : p.userId = t.sender => t.senderLang = p.language
        /\ \A p \in t.participants :
              p.language # t.senderLang => p.language \in t.targetLanguages
        /\ \A l \in t.targetLanguages :
              l # t.senderLang /\ \E p \in t.participants : p.language = l
        /\ t.calls > 0 => t.targetLanguages # {}

C24_TargetLanguages ==
    /\ \A i \in SlotIds : C24_TargetsOf(tasks[i])
    /\ C24_TargetsOf(fin)

\* the claim's example: participants in en and es, the one in en sends
C24_Witness ==
    \E i \in SlotIds :
        /\ Fetched(tasks[i]) /\ tasks[i].pc = "translateMessage"
        /\ { p.language : p \in tasks[i].participants } = {"en", "es"}
        /\ \E p \in tasks[i].participants :
              p.userId = tasks[i].sender /\ p.language = "en"
        /\ tasks[i].targetLanguages = {"es"}

\* C25: a typing event is relayed as user_typing only if its connection is
\* authenticated, only to connections of the room's live group other than the
\* sending one, and its handler changes neither the Store nor the presence maps
\* nor the live groups.
C25_TypingRelay ==
    [][ fin'.kind = "typing" =>
          /\ \A k \in DOMAIN fin'.sent :
                /\ fin'.sent[k].type = "user_typing"
                /\ fin'.sent[k].to \subseteq liveGroup[fin'.roomId] \ {fin'.conn}
                /\ fin'.sent[k].to # {} => currentUserId[fin'.conn] \in authedAs[fin'.conn]
          /\ UNCHANGED << store, rooms, presence, liveGroup >>
      ]_vars

\* C26: a successful join_room emits two events and no more: first user_joined,
\* to the connections that are in the room's live group at that moment without
\* the joining one, and afterwards online_users, to all connections that are in
\* the group at that moment; the joining connection is among the latter unless
\* it left the room or disconnected while the join was in progress.
JoinedOk(t) == t.kind = "join_room" /\ t.outcome = "ok"

C27_LeaveRoom ==
    [][ fin'.kind = "leave_room" =>
          /\ fin'.conn \notin liveGroup'[fin'.roomId]
          /\ MapHas(userRooms', fin'.conn) => fin'.roomId \notin userRooms'[fin'.conn]
          /\ onlineUsers' = onlineUsers
          /\ \A k \in DOMAIN fin'.sent :
                /\ fin'.sent[k].type = "user_left"
                /\ fin'.sent[k].to = liveGroup'[fin'.roomId]
                /\ fin'.sent[k].to # {} => currentUserId[fin'.conn] \in authedAs[fin'.conn]
          /\ currentUserId[fin'.conn] \in authedAs[fin'.conn] => Len(fin'.sent) = 1
      ]_vars

\* C28: the disconnect of a connection that never received authenticate
\* returns normally, emits no event and leaves the user-to-connections map and
\* the connection-to-rooms map as they were.
C28_DisconnectUnauthenticated ==
    [][ (fin'.kind = "disconnect" /\ currentUserId[fin'.conn] = NoUser) =>
          /\ fin'.outcome = "ok"
          /\ fin'.sent = <<>>
          /\ onlineUsers' = onlineUsers /\ userRooms' = userRooms
          /\ tasks' = tasks
      ]_vars

C28_Witness ==
    /\ fin.kind = "disconnect" /\ currentUserId[fin.conn] = NoUser
    /\ ~connected[fin.conn]
    /\ DOMAIN onlineUsers # {} /\ DOMAIN userRooms # {}

\* C29: a send_message that passed the authentication and the membership check
\* leads, whether the Translator answers, answers without JSON or throws, to
\* the handler's end with the Message persisted and one new_message broadcast,
\* unless the Store refuses the insert of the Message.
Delivered(t) ==
    /\ IsSend(t) /\ t.outcome = "ok"
    /\ t.message # NoRow /\ t.message.id < nextMsgId
    /\ Cardinality(Broadcasts(t)) = 1

InsertRefused(t) ==
    IsSend(t) /\ t.outcome = "threw" /\ ~createMessageAccepted(t.roomId, t.uid)

C29_DeliveryNotBlocked ==
    \A i \in SlotIds :
        PassedChecks(tasks[i]) ~>
            (fin.conn = i[1] /\ (Delivered(fin) \/ InsertRefused(fin)))

C29_Witness ==
    /\ Delivered(fin) /\ fin.reply = "throw"
    /\ fin.message \in messages
    /\ \A l \in fin.targetLanguages : fin.message.translatedContent[l] = fin.content
    /\ fin.targetLanguages # {}

\* C30: the online_users event of a successful join_room names the joining
\* user, however the steps of the connection's authenticate handler and of its
\* join_room handler interleave (the connection stays open, the Store is not
\* changed meanwhile).
C30_JoinerIsOnline ==
    (JoinedOk(fin) /\ connected[fin.conn] /\ StoreUntouched) =>
        \A k \in EventsOf(fin, "online_users") : fin.uid \in fin.sent[k].body

\* C31: the online_users event a disconnect emits for a room names a user the
\* disconnecting connection was authenticated as, and who is a participant of
\* the room, exactly if another open connection is authenticated as that user.
OtherConnectionOf(u, c) ==
    \E d \in Conns \ {c} :
        connected[d] /\ currentUserId[d] = u /\ u \in authedAs[d]

C31_DisconnectOnlineUsers ==
    (fin.kind = "disconnect" /\ fin.sent # <<>> /\ StoreUntouched) =>
        LET ev == fin.sent[Len(fin.sent)]
        IN ev.type = "online_users" =>
              \A u \in authedAs[fin.conn] :
                  isUserInRoom(ev.roomId, u) =>
                      (u \in ev.body <=> OtherConnectionOf(u, fin.conn))

\* C32: the translation map and the original language persisted with a Message
\* are the map and the detectedLanguage broadcast in the new_message of the same
\* send; a send calls the Translator at most once, and a history fetch returns
\* the persisted rows as they are.
C32_SendOf(t) ==
    IsSend(t) =>
        /\ t.calls <= 1
        /\ t.message # NoRow =>
              /\ t.message.translatedContent = t.translationResult.translations
              /\ t.message.originalLanguage = t.translationResult.detectedLanguage
        /\ \A k \in Broadcasts(t) :
              /\ t.sent[k].body.message = t.message
              /\ t.sent[k].body.translationResult.translations =
                    t.sent[k].body.message.translatedContent
              /\ t.sent[k].body.translationResult.detectedLanguage =
                    t.sent[k].body.message.originalLanguage

C32_TranslatedOnce ==
    /\ \A i \in SlotIds : C32_SendOf(tasks[i])
    /\ C32_SendOf(fin)
    /\ \A r \in RoomIds :
          \A j \in DOMAIN getRoomMessages(r, HistoryLimit) :
              getRoomMessages(r, HistoryLimit)[j].message \in messages

C32_Witness ==
    /\ IsSend(fin) /\ fin.outcome = "ok" /\ fin.reply = "json" /\ fin.calls = 1
    /\ \E k \in Broadcasts(fin) :
          /\ fin.sent[k].body.translationResult.translations # EmptyMap
          /\ \E j \in DOMAIN getRoomMessages(fin.roomId, HistoryLimit) :
                getRoomMessages(fin.roomId, HistoryLimit)[j].message.translatedContent =
                    fin.sent[k].body.translationResult.translations

\* C33: every code generateRoomCode returns, and every code of a stored room,
\* has exactly 6 characters, each a capital letter other than I and O or a
\* digit from 2 to 9; and getRoomByCode, given a room's code in any letter
\* case, finds the room with that code.
CodeCharacters ==
    ({ Upper[l] : l \in DOMAIN Upper } \ {"I", "O"})
        \cup {"2", "3", "4", "5", "6", "7", "8", "9"}

WellFormedCode(code) ==
    Len(code) = 6 /\ \A k \in DOMAIN code : code[k] \in CodeCharacters

C33_RoomCodes ==
    /\ gen.pc \in {"generated", "looked up"} => WellFormedCode(gen.code)
    /\ \A r \in rooms : WellFormedCode(r.roomCode)
    /\ gen.pc = "looked up" => gen.room \in rooms /\ gen.room.roomCode = gen.code

C33_Witness ==
    /\ gen.pc = "looked up"
    /\ gen.query # gen.code
    /\ gen.room \in rooms \ InitRooms /\ gen.room.roomCode = gen.code
    /\ \E k \in DOMAIN gen.code : gen.code[k] = "9"

\* ------------------------------------------- REST routes that read a room
\* GET /api/rooms/:id and GET /api/rooms/:id/messages, with the leave route
\* running between their awaits

\* req.params.id after parseInt: the two rooms and an id no room has
GetRoomIds == {1, 2, 3}

\* rows of table messages when the requests arrive
StoredMessages ==
    { createMessage(1, 1, 1, <<"h", " ">>, "text", "en", EmptyMap),
      createMessage(2, 2, 1, <<"h", " ">>, "text", "en", EmptyMap) }

\* a missing room answered as not found
notAMember_notFound(q) ==
    IF getRoomById(q.roomId) = NoRow
    THEN [q EXCEPT !.status = 404, !.body = [error |-> "Room not found"]]
    ELSE [q EXCEPT !.status = 403, !.body = [error |-> "Not a member of this room"]]

\* res.status(403).json({ error: "Not a member of this room" })
notAMember(q) ==
    [q EXCEPT !.status = 403, !.body = [error |-> "Not a member of this room"]]

InitGet ==
    /\ users = InitUsers
    /\ participants = InitParticipants
    /\ messages \in SUBSET StoredMessages
    /\ nextMsgId = 3
    /\ onlineUsers = EmptyMap
    /\ userRooms = EmptyMap
    /\ currentUserId = [c \in Conns |-> NoUser]
    /\ connected = [c \in Conns |-> TRUE]
    /\ liveGroup = [r \in RoomIds |-> {}]
    /\ tasks = [i \in SlotIds |-> NoTask]
    /\ fin = NoTask
    /\ del = NoDel
    /\ nRequests = 0
    /\ lastEv = [c \in Conns |-> [r \in RoomIds |-> "none"]]
    /\ authedAs = [c \in Conns |-> {}]
    /\ run = NoRun
    /\ rooms = InitRooms
    /\ nextRoomId = 3
    /\ nextPartId = 4
    /\ reqs = [i \in ReqSlots |-> NoReq]
    /\ resp = NoReq
    /\ call = NoCall
    /\ gen = NoGen

\* a GET request of a session arrives: requireAuth passes, isUserInRoom is awaited
RestGet(kind, userId, roomId) ==
    /\ userId \in users /\ nRequests < MaxRequests /\ HasFreeReq(userId)
    /\ Receive([NewReq(kind, userId, "isUserInRoom", <<>>, "") EXCEPT !.roomId = roomId])
    /\ nRequests' = nRequests + 1
    /\ UNCHANGED << socketState, users, participants, rooms, nextRoomId, nextPartId >>

\* GET /api/rooms/:id
RestGetRoom(userId, roomId) == RestGet("getRoom", userId, roomId)

\* GET /api/rooms/:id/messages
RestGetMessages(userId, roomId) == RestGet("getMessages", userId, roomId)

\* isUserInRoom returns; both routes answer 403 when it is false
GetIsUserInRoom(i) ==
    LET q == reqs[i]
        inRoom == isUserInRoom(q.roomId, q.userId)
    IN /\ q.kind \in {"getRoom", "getMessages"} /\ q.pc = "isUserInRoom"
       /\ IF ~inRoom
          THEN Respond(i, notAMember(q), "sent")
          ELSE Proceed(i, [q EXCEPT !.inRoom = TRUE,
                                    !.pc = IF q.kind = "getRoom" THEN "getRoomById"
                                           ELSE "getRoomMessages"])
       /\ UNCHANGED << socketState, users, participants, rooms, nextRoomId,
                       nextPartId, nRequests >>

GetRoomGetRoomById(i) ==
    LET q == reqs[i]
        room == getRoomById(q.roomId)
    IN /\ q.kind = "getRoom" /\ q.pc = "getRoomById"
       /\ IF room = NoRow
          THEN Respond(i, [q EXCEPT !.status = 404,
                                    !.body = [error |-> "Room not found"]], "sent")
          ELSE Proceed(i, [q EXCEPT !.room = room, !.pc = "getRoomParticipants"])
       /\ UNCHANGED << socketState, users, participants, rooms, nextRoomId,
                       nextPartId, nRequests >>

GetRoomGetRoomParticipants(i) ==
    LET q == reqs[i]
        roomParticipants == getRoomParticipants(q.roomId)
    IN /\ q.kind = "getRoom" /\ q.pc = "getRoomParticipants"
       /\ Respond(i, [q EXCEPT !.status = 200,
                               !.body = [room |-> q.room,
                                         participants |-> roomParticipants]], "sent")
       /\ UNCHANGED << socketState, users, participants, rooms, nextRoomId,
                       nextPartId, nRequests >>

GetMessagesGetRoomMessages(i) ==
    LET q == reqs[i]
    IN /\ q.kind = "getMessages" /\ q.pc = "getRoomMessages"
       /\ Respond(i, [q EXCEPT !.status = 200,
                               !.body = [messages |-> getRoomMessages(q.roomId,
                                                                      HistoryLimit)]],
                  "sent")
       /\ UNCHANGED << socketState, users, participants, rooms, nextRoomId,
                       nextPartId, nRequests >>

NextGet ==
    \/ \E userId \in InitUsers, roomId \in GetRoomIds : RestGetRoom(userId, roomId)
    \/ \E userId \in InitUsers, roomId \in GetRoomIds : RestGetMessages(userId, roomId)
    \/ \E i \in ReqSlots : GetIsUserInRoom(i)
    \/ \E i \in ReqSlots : GetRoomGetRoomById(i)
    \/ \E i \in ReqSlots : GetRoomGetRoomParticipants(i)
    \/ \E i \in ReqSlots : GetMessagesGetRoomMessages(i)
    \/ \E userId \in InitUsers, roomId \in RoomIds : RestLeaveRoom(userId, roomId)

SpecGet == InitGet /\ [][NextGet]_vars

\* C34: GET /api/rooms/:id and GET /api/rooms/:id/messages answer a user for
\* whom isUserInRoom returned false with status 403 and the one body
\* "Not a member of this room", for a room that exists and for an id no room
\* has alike; and they answer 200, with the room or its messages, only to a
\* requester for whom isUserInRoom returned true in that request.
IsGet(q) == q.kind \in {"getRoom", "getMessages"} /\ q.pc = "returned"

C34_MembersOnly ==
    IsGet(resp) =>
        /\ ~resp.inRoom =>
              /\ resp.status = 403
              /\ resp.body = [error |-> "Not a member of this room"]
        /\ resp.inRoom => resp.status = 200 /\ getRoomById(resp.roomId) # NoRow
        /\ resp.status # 200 => DOMAIN resp.body = {"error"}
        /\ (resp.status = 200 /\ resp.kind = "getRoom") =>
              /\ resp.body.room = getRoomById(resp.roomId)
              /\ \A p \in resp.body.participants : p.roomId = resp.roomId
        /\ (resp.status = 200 /\ resp.kind = "getMessages") =>
              \A k \in DOMAIN resp.body.messages :
                  resp.body.messages[k].message.roomId = resp.roomId

\* a room that does not exist answered with 403
C34_Witness ==
    /\ IsGet(resp) /\ resp.status = 403
    /\ getRoomById(resp.roomId) = NoRow
    /\ ~isUserInRoom(resp.roomId, resp.userId)

\* a room that exists answered with 403, and a participant answered with messages
C34_WitnessForbidden ==
    /\ IsGet(resp) /\ resp.status = 403 /\ getRoomById(resp.roomId) # NoRow

C34_WitnessMessages ==
    /\ IsGet(resp) /\ resp.status = 200 /\ resp.kind = "getMessages"
    /\ resp.body.messages # <<>>

\* C35: every connection id is in the connection set of at most one user of
\* onlineUsers, and that user is the connection's currentUserId; after a
\* second authenticate of a connection with another user id the connection
\* has no entry under the previous user.
C35_OneUserPerConnection ==
    \A c \in Conns :
        \A u \in DOMAIN onlineUsers :
            c \in onlineUsers[u] => u = currentUserId[c]

\* the connection acknowledged as a second user and listed under both
C35_ListedUnderTwoUsers ==
    \E c \in Conns :
        /\ fin.kind = "authenticate" /\ fin.conn = c /\ fin.outcome = "ok"
        /\ Cardinality({ u \in DOMAIN onlineUsers : c \in onlineUsers[u] }) = 2

\* C36: of two send_message events received on one connection for one room,
\* the one received first is persisted first and broadcast first, also when
\* only the first one needs a call of the Translator.
Overtaken(t) ==
    /\ IsSend(fin) /\ IsSend(t)
    /\ t.conn = fin.conn /\ t.roomId = fin.roomId
    /\ t.recv < fin.recv
    /\ t.message # NoRow

C36_ReceiptOrder ==
    \A i \in SlotIds :
        Overtaken(tasks[i]) =>
            /\ Broadcasts(fin) = {}
            /\ fin.message # NoRow => tasks[i].message.id < fin.message.id

\* the send received first called the Translator, the one received second
\* did not, and the second is stored and broadcast first
C36_TranslatedSendOvertaken ==
    \E i \in SlotIds :
        /\ Overtaken(tasks[i]) /\ Broadcasts(fin) # {}
        /\ fin.message.id < tasks[i].message.id
        /\ tasks[i].calls = 1 /\ fin.calls = 0

\* C37: of any two messages of one room, the one createMessage stored first
\* is the one whose new_message event is broadcast first.
StoredNotBroadcast(t) ==
    IsSend(t) /\ t.message # NoRow /\ Broadcasts(t) = {}

C37_BroadcastInPersistOrder ==
    \A i \in SlotIds :
        ( /\ IsSend(fin) /\ Broadcasts(fin) # {}
          /\ StoredNotBroadcast(tasks[i])
          /\ tasks[i].roomId = fin.roomId )
        => fin.message.id < tasks[i].message.id

\* two senders on two connections: the message stored second reaches the
\* room's connections while the one stored first waits for getUserById
C37_TwoSendersSwapped ==
    \E i \in SlotIds :
        /\ IsSend(fin) /\ Broadcasts(fin) # {}
        /\ StoredNotBroadcast(tasks[i])
        /\ tasks[i].roomId = fin.roomId /\ tasks[i].conn # fin.conn
        /\ tasks[i].message.senderId # fin.message.senderId
        /\ tasks[i].message.id < fin.message.id
        /\ \A k \in Broadcasts(fin) : fin.sent[k].to # {}
        /\ tasks[i].message \in messages /\ fin.message \in messages

\* C38: a user_left event of leave_room or a user_typing event, for room R
\* with user id U, is emitted only by the handler of a connection that has
\* been acknowledged as the existing user U and that is in R's live group when
\* the event arrives (for user_left: until the handler takes it out).
C38_OnBehalfOfMember ==
    [][ fin'.kind \in {"typing", "leave_room"} =>
          \A k \in DOMAIN fin'.sent :
              fin'.sent[k].type \in {"user_typing", "user_left"} =>
                  /\ fin'.conn \in liveGroup[fin'.sent[k].roomId]
                  /\ fin'.sent[k].userId \in users
                  /\ fin'.sent[k].userId \in authedAs[fin'.conn]
      ]_vars

\* a connection outside the room's live group makes the room's connections
\* receive user_typing
C38_OutsiderTyping ==
    /\ fin.kind = "typing" /\ fin.conn \notin liveGroup[fin.roomId]
    /\ \E k \in DOMAIN fin.sent :
          /\ fin.sent[k].type = "user_typing" /\ fin.sent[k].to # {}
          /\ fin.sent[k].userId \in authedAs[fin.conn]

\* user 2 is no participant of room 2, so c2 never joined it: its leave_room
\* makes the connections of room 2 receive user_left
C38_OutsiderLeft ==
    /\ fin.kind = "leave_room" /\ fin.conn = "c2" /\ fin.roomId = 2
    /\ participants = InitParticipants /\ authedAs["c2"] = {2}
    /\ \E k \in DOMAIN fin.sent :
          /\ fin.sent[k].type = "user_left" /\ fin.sent[k].to # {}
          /\ fin.sent[k].userId = 2

\* C39: translateMessage returns confidence 0 exactly when the call of the
\* remote model failed (it threw, or its reply held no JSON); the result is
\* then detectedLanguage "unknown" with the original text for every target
\* language. A reply that was parsed never gives confidence 0: a confidence
\* that is missing or 0 in it is returned as 0.8.
FailurePath ==
    call.targetLanguages # {} /\ call.reply.kind \in {"throw", "text"}

C39_ZeroConfidence ==
    call.pc = "returned" =>
        /\ call.result.confidence = 0 <=> FailurePath
        /\ FailurePath =>
              /\ call.result.detectedLanguage = "unknown"
              /\ call.result.translations = [l \in call.targetLanguages |-> call.text]
        /\ (call.targetLanguages # {} /\ call.reply.kind = "json") =>
              /\ call.result.confidence # 0
              /\ call.reply.confidence = 0 => call.result.confidence = 80

\* a reply without JSON for two target languages
C39_Witness ==
    /\ call.pc = "returned" /\ call.reply.kind = "text"
    /\ call.targetLanguages = {"es", "fr"}
    /\ call.result.confidence = 0
    /\ call.result.translations = [l \in {"es", "fr"} |-> call.text]

\* a parsed reply with confidence 0 comes back as 0.8
C39_WitnessZeroReply ==
    /\ call.pc = "returned" /\ call.reply.kind = "json"
    /\ call.targetLanguages # {} /\ call.reply.confidence = 0
    /\ call.result.confidence = 80

====
